---------------------------- MODULE Spec2Model ----------------------------
(***************************************************************************)
(* Model of the six Jupiter adapters (Swap, Trigger, Ultra, Recurring,     *)
(* Token, Price).  Every adapter's execute() is the same loop over the     *)
(* input items: read the node parameters of the item, build the request    *)
(* options of the selected operation, look the credential up, call the     *)
(* HTTP helper, push the response; a per-item catch either pushes an       *)
(* error-shaped item (continueOnFail) or rethrows with the item index.     *)
(*                                                                         *)
(* The loop, the credential lookup, the HTTP call and the catch are the    *)
(* same text in all six classes; only the switch over the operation        *)
(* differs, and JupiterToken and JupiterPrice have no body.                *)
(*                                                                         *)
(* Strings built with template literals are tuples of their pieces.        *)
(* An absent value (undefined, no return, nothing thrown) is <<>>.         *)
(***************************************************************************)
EXTENDS Integers, Sequences, FiniteSets, TLC

\* ------------------------------------------------------------------ bounds
MaxItems == 2
MaxOverrides == 1

\* --------------------------------------------------------------- catalogs
Adapters == {"Swap", "Trigger", "Ultra", "Recurring", "Token", "Price"}

SwapOperations == {"programIdToLabel", "quote", "swap", "swapInstructions"}
TriggerOperations == {"cancelOrder", "cancelOrders", "createOrder", "execute", "getTriggerOrders"}
UltraOperations == {"balances", "execute", "order", "routers", "search", "shield"}
RecurringOperations == {"cancelOrder", "createOrder", "execute", "getRecurringOrders", "priceDeposit", "priceWithdraw"}
TokenOperations == {"search", "tag", "category", "recent"}
\* JupiterPrice has no operation parameter: one implicit operation.
PriceOperations == {"price"}

Operations(adapter) ==
  CASE adapter = "Swap" -> SwapOperations
    [] adapter = "Trigger" -> TriggerOperations
    [] adapter = "Ultra" -> UltraOperations
    [] adapter = "Recurring" -> RecurringOperations
    [] adapter = "Token" -> TokenOperations
    [] adapter = "Price" -> PriceOperations

\* An operation value outside the options list (a hand-edited workflow).
UnknownOperation == "bogus"

\* The parameters that take a comma-separated list.  Their text is a sequence
\* of characters, so that splitting it and passing it on are different things.
ListParameters == {"orderIds", "dexes", "excludeDexes", "excludeRouters", "mints", "ids"}

\* The catalog defaults (properties[].default).
SwapDefaults ==
  [baseUrl |-> "https://lite-api.jup.ag/swap/v1", operation |-> "quote",
   inputMint |-> "", outputMint |-> "", amount |-> "", slippageBps |-> 50,
   userPublicKey |-> "", wrapAndUnwrapSol |-> TRUE, useSharedAccounts |-> TRUE,
   feeAccount |-> "", computeUnitPriceMicroLamports |-> 0,
   swapMode |-> "ExactIn", dexes |-> <<>>, excludeDexes |-> <<>>,
   restrictIntermediateTokens |-> FALSE, onlyDirectRoutes |-> FALSE,
   asLegacyTransaction |-> FALSE, platformFeeBps |-> 0, maxAccounts |-> 64]

TriggerDefaults ==
  [baseUrl |-> "https://lite-api.jup.ag/trigger/v1", operation |-> "createOrder",
   signedTransaction |-> "", requestId |-> "", account |-> "",
   orderType |-> "active", inputMint |-> "", outputMint |-> "", amount |-> "",
   maker |-> "", triggerPrice |-> "", triggerCondition |-> "above",
   orderId |-> "", orderIds |-> <<>>, slippageBps |-> 50]

UltraDefaults ==
  [baseUrl |-> "https://lite-api.jup.ag/ultra/v1", operation |-> "balances",
   inputMint |-> "", outputMint |-> "", amount |-> "", taker |-> "",
   referralAccount |-> "", referralFee |-> 0, excludeRouters |-> <<>>,
   signedTransaction |-> "", requestId |-> "", address |-> "", mints |-> <<>>,
   query |-> ""]

RecurringDefaults ==
  [baseUrl |-> "https://lite-api.jup.ag/recurring/v1", operation |-> "createOrder",
   recurringType |-> "time", signedTransaction |-> "", requestId |-> "",
   account |-> "", orderType |-> "active", inputMint |-> "", outputMint |-> "",
   amount |-> "", maker |-> "", orderId |-> "", slippageBps |-> 50]

TokenDefaults ==
  [baseUrl |-> "https://lite-api.jup.ag/tokens/v2", operation |-> "search",
   query |-> "", tag |-> "verified", category |-> "toporganicscore",
   interval |-> "24h", limit |-> 50]

PriceDefaults ==
  [baseUrl |-> "https://lite-api.jup.ag/price/v3", ids |-> <<>>,
   vsToken |-> "USDC", vsTokenAddress |-> "", showExtraInfo |-> FALSE]

Defaults(adapter) ==
  CASE adapter = "Swap" -> SwapDefaults
    [] adapter = "Trigger" -> TriggerDefaults
    [] adapter = "Ultra" -> UltraDefaults
    [] adapter = "Recurring" -> RecurringDefaults
    [] adapter = "Token" -> TokenDefaults
    [] adapter = "Price" -> PriceDefaults

\* properties[].type: 'number' and 'boolean'; every other one is a string
\* ('string' or 'options').
NumberParameters ==
  {"slippageBps", "computeUnitPriceMicroLamports", "platformFeeBps",
   "maxAccounts", "referralFee", "limit"}

BooleanParameters ==
  {"wrapAndUnwrapSol", "useSharedAccounts", "restrictIntermediateTokens",
   "onlyDirectRoutes", "asLegacyTransaction", "showExtraInfo"}

\* The values a user can give a parameter: the option values of an 'options'
\* parameter, both booleans, zero and one non-zero number, the empty string
\* and one non-empty string, no list, a list of one and a list of two.
ParameterValues(name) ==
  CASE name = "baseUrl" -> {"https://api.jup.ag"}
    [] name = "inputMint" -> {"", "A"}
    [] name = "outputMint" -> {"", "B"}
    [] name = "amount" -> {"", "1000000"}
    [] name = "swapMode" -> {"ExactIn", "ExactOut"}
    [] name = "orderType" -> {"active", "historical"}
    [] name = "triggerCondition" -> {"above", "below"}
    [] name = "recurringType" -> {"time", "price"}
    [] name = "tag" -> {"lst", "verified"}
    [] name = "category" -> {"toporganicscore", "toptraded", "toptrending"}
    [] name = "interval" -> {"5m", "1h", "6h", "24h"}
    [] name = "vsToken" -> {"", "USDC"}
    [] name = "slippageBps" -> {0, 50}
    [] name = "maxAccounts" -> {0, 64}
    [] name = "limit" -> {0, 50}
    [] name \in {"computeUnitPriceMicroLamports", "platformFeeBps", "referralFee"} -> {0, 10}
    [] name \in BooleanParameters -> BOOLEAN
    [] name \in ListParameters -> {<<>>, <<"a">>, <<"a", ",", " ", "b">>}
    [] OTHER -> {"", "x"}

\* ------------------------------------------------------------- JavaScript
\* if (value): 0, false and '' are falsy (for a character sequence, '').
Truthy(name, value) ==
  IF name \in NumberParameters THEN value # 0
  ELSE IF name \in BooleanParameters THEN value
  ELSE IF name \in ListParameters THEN value # <<>>
  ELSE value # ""

RECURSIVE Split(_)
\* text.split(','): the pieces between the commas, in order.
Split(text) ==
  IF \A i \in 1..Len(text) : text[i] # ","
  THEN <<text>>
  ELSE LET at == CHOOSE i \in 1..Len(text) :
                   text[i] = "," /\ \A j \in 1..(i - 1) : text[j] # ","
       IN <<SubSeq(text, 1, at - 1)>> \o Split(SubSeq(text, at + 1, Len(text)))

RECURSIVE Trim(_)
\* id.trim(): without the leading and trailing white space.
Trim(text) ==
  IF text = <<>> THEN text
  ELSE IF Head(text) = " " THEN Trim(Tail(text))
  ELSE IF text[Len(text)] = " " THEN Trim(SubSeq(text, 1, Len(text) - 1))
  ELSE text

\* SplitTrim with a defect: the tokens are not trimmed.
SplitTrimWithoutTrim(text) == Split(text)

\* orderIds.split(',').map(id => id.trim())
SplitTrim(text) == [i \in 1..Len(Split(text)) |-> Trim(Split(text)[i])]

\* Assign with a defect: the if (value) guards are missing.
AssignUnguarded(p, always, guarded) ==
  [k \in always \cup guarded |-> p[k]]

\* The keys an operation branch assigns: `always` unconditionally, `guarded`
\* under if (value).
Assign(p, always, guarded) ==
  [k \in always \cup {g \in guarded : Truthy(g, p[g])} |-> p[k]]


\* ------------------------------------------------------- request building
\* The parameters each operation branch reads with getNodeParameter, besides
\* baseUrl and operation.
SwapReads(operation) ==
  CASE operation = "quote" ->
         {"inputMint", "outputMint", "amount", "slippageBps", "swapMode",
          "dexes", "excludeDexes", "restrictIntermediateTokens",
          "onlyDirectRoutes", "asLegacyTransaction", "platformFeeBps",
          "maxAccounts"}
    [] operation \in {"swap", "swapInstructions"} ->
         {"inputMint", "outputMint", "amount", "slippageBps", "userPublicKey",
          "wrapAndUnwrapSol", "useSharedAccounts", "feeAccount",
          "computeUnitPriceMicroLamports"}
    [] OTHER -> {}

TriggerReads(operation) ==
  CASE operation = "createOrder" ->
         {"inputMint", "outputMint", "amount", "maker", "triggerPrice",
          "triggerCondition", "slippageBps"}
    [] operation = "cancelOrder" -> {"maker", "orderId"}
    [] operation = "cancelOrders" -> {"maker", "orderIds"}
    [] operation = "execute" -> {"signedTransaction", "requestId"}
    [] operation = "getTriggerOrders" -> {"account", "orderType"}
    [] OTHER -> {}

UltraReads(operation) ==
  CASE operation = "order" ->
         {"inputMint", "outputMint", "amount", "taker", "referralAccount",
          "referralFee", "excludeRouters"}
    [] operation = "execute" -> {"signedTransaction", "requestId"}
    [] operation = "balances" -> {"address"}
    [] operation = "shield" -> {"mints"}
    [] operation = "search" -> {"query"}
    [] OTHER -> {}

RecurringReads(operation) ==
  CASE operation = "createOrder" ->
         {"inputMint", "outputMint", "amount", "maker", "recurringType",
          "slippageBps"}
    [] operation = "cancelOrder" ->
         {"inputMint", "outputMint", "maker", "recurringType", "orderId"}
    [] operation = "execute" -> {"signedTransaction", "requestId", "recurringType"}
    [] operation = "getRecurringOrders" -> {"account", "orderType"}
    [] operation \in {"priceDeposit", "priceWithdraw"} ->
         {"inputMint", "outputMint", "amount", "maker"}
    [] OTHER -> {}

TokenReads(operation) ==
  CASE operation = "search" -> {"query", "limit"}
    [] operation = "tag" -> {"tag"}
    [] operation = "category" -> {"category", "interval"}
    [] OTHER -> {}

PriceReads(operation) == {"ids", "vsToken", "vsTokenAddress", "showExtraInfo"}

Reads(adapter, operation) ==
  {"baseUrl"} \cup
  CASE adapter = "Swap" -> SwapReads(operation)
    [] adapter = "Trigger" -> TriggerReads(operation)
    [] adapter = "Ultra" -> UltraReads(operation)
    [] adapter = "Recurring" -> RecurringReads(operation)
    [] adapter = "Token" -> TokenReads(operation)
    [] adapter = "Price" -> PriceReads(operation)

\* The parameters each operation branch assigns under an if (value) guard.
Guarded(adapter, operation) ==
  CASE adapter = "Swap" /\ operation = "quote" ->
         {"dexes", "excludeDexes", "restrictIntermediateTokens",
          "onlyDirectRoutes", "asLegacyTransaction", "platformFeeBps",
          "maxAccounts"}
    [] adapter = "Swap" /\ operation \in {"swap", "swapInstructions"} ->
         {"feeAccount", "computeUnitPriceMicroLamports"}
    [] adapter = "Trigger" /\ operation = "cancelOrder" -> {"orderId"}
    [] adapter = "Trigger" /\ operation = "cancelOrders" -> {"orderIds"}
    [] adapter = "Ultra" /\ operation = "order" ->
         {"taker", "referralAccount", "referralFee", "excludeRouters"}
    [] adapter = "Recurring" /\ operation = "cancelOrder" -> {"orderId"}
    [] adapter = "Token" /\ operation = "search" -> {"query", "limit"}
    [] adapter = "Price" -> {"ids", "vsToken", "vsTokenAddress", "showExtraInfo"}
    [] OTHER -> {}

\* The parameters each operation branch puts into the URL path.
InPath(adapter, operation) ==
  CASE adapter = "Ultra" /\ operation = "balances" -> {"address"}
    [] adapter = "Token" /\ operation = "tag" -> {"tag"}
    [] adapter = "Token" /\ operation = "category" -> {"category", "interval"}
    [] OTHER -> {}

\* The catalog: the parameters whose displayOptions.show lists the operation
\* (the resource parameters operation and baseUrl aside).
SwapShown(operation) ==
  (IF operation \in {"quote", "swap", "swapInstructions"}
   THEN {"inputMint", "outputMint", "amount", "slippageBps"} ELSE {}) \cup
  (IF operation \in {"swap", "swapInstructions"}
   THEN {"userPublicKey", "wrapAndUnwrapSol", "useSharedAccounts", "feeAccount",
         "computeUnitPriceMicroLamports"} ELSE {}) \cup
  (IF operation = "quote"
   THEN {"swapMode", "dexes", "excludeDexes", "restrictIntermediateTokens",
         "onlyDirectRoutes", "asLegacyTransaction", "platformFeeBps",
         "maxAccounts"} ELSE {})

TriggerShown(operation) ==
  (IF operation = "execute" THEN {"signedTransaction", "requestId"} ELSE {}) \cup
  (IF operation = "getTriggerOrders" THEN {"account", "orderType"} ELSE {}) \cup
  (IF operation = "createOrder"
   THEN {"inputMint", "outputMint", "amount", "triggerPrice", "triggerCondition",
         "slippageBps"} ELSE {}) \cup
  (IF operation \in {"createOrder", "cancelOrder", "cancelOrders"}
   THEN {"maker"} ELSE {}) \cup
  (IF operation = "cancelOrder" THEN {"orderId"} ELSE {}) \cup
  (IF operation = "cancelOrders" THEN {"orderIds"} ELSE {})

\* referralFee is moreover hidden while referralAccount is '' (Hidden).
UltraShown(operation) ==
  (IF operation = "order"
   THEN {"inputMint", "outputMint", "amount", "taker", "referralAccount",
         "referralFee", "excludeRouters"} ELSE {}) \cup
  (IF operation = "execute" THEN {"signedTransaction", "requestId"} ELSE {}) \cup
  (IF operation = "balances" THEN {"address"} ELSE {}) \cup
  (IF operation = "shield" THEN {"mints"} ELSE {}) \cup
  (IF operation = "search" THEN {"query"} ELSE {})

RecurringShown(operation) ==
  (IF operation \in {"createOrder", "cancelOrder", "execute"}
   THEN {"recurringType"} ELSE {}) \cup
  (IF operation = "execute" THEN {"signedTransaction", "requestId"} ELSE {}) \cup
  (IF operation = "getRecurringOrders" THEN {"account", "orderType"} ELSE {}) \cup
  (IF operation \in {"createOrder", "cancelOrder", "priceDeposit", "priceWithdraw"}
   THEN {"inputMint", "outputMint", "maker"} ELSE {}) \cup
  (IF operation \in {"createOrder", "priceDeposit", "priceWithdraw"}
   THEN {"amount"} ELSE {}) \cup
  (IF operation = "cancelOrder" THEN {"orderId"} ELSE {}) \cup
  (IF operation = "createOrder" THEN {"slippageBps"} ELSE {})

TokenShown(operation) ==
  (IF operation = "search" THEN {"query", "limit"} ELSE {}) \cup
  (IF operation = "tag" THEN {"tag"} ELSE {}) \cup
  (IF operation = "category" THEN {"category", "interval"} ELSE {})

\* The JupiterPrice catalog has no displayOptions: everything is always shown.
PriceShown(operation) == {"ids", "vsToken", "vsTokenAddress", "showExtraInfo"}

Shown(adapter, operation) ==
  CASE adapter = "Swap" -> SwapShown(operation)
    [] adapter = "Trigger" -> TriggerShown(operation)
    [] adapter = "Ultra" -> UltraShown(operation)
    [] adapter = "Recurring" -> RecurringShown(operation)
    [] adapter = "Token" -> TokenShown(operation)
    [] adapter = "Price" -> PriceShown(operation)

\* displayOptions.hide, the only one of the catalogs: JupiterUltra hides
\* referralFee while referralAccount is ''.
Hidden(adapter, operation, p) ==
  IF adapter = "Ultra" /\ "referralAccount" \in DOMAIN p /\ p.referralAccount = ""
  THEN {"referralFee"} ELSE {}

\* The parameters the catalog displays for the operation under the values p.
Visible(adapter, operation, p) ==
  Shown(adapter, operation) \ Hidden(adapter, operation, p)

\* The catalog: the parameters marked required: true.  JupiterUltra and
\* JupiterToken mark none.
SwapRequired == {"inputMint", "outputMint", "amount", "userPublicKey"}

TriggerRequired ==
  {"signedTransaction", "requestId", "account", "inputMint", "outputMint",
   "amount", "triggerPrice", "maker"}

RecurringRequired ==
  {"signedTransaction", "requestId", "account", "inputMint", "outputMint",
   "maker", "amount"}

PriceRequired == {"ids"}

RequiredParameters(adapter) ==
  CASE adapter = "Swap" -> SwapRequired
    [] adapter = "Trigger" -> TriggerRequired
    [] adapter = "Recurring" -> RecurringRequired
    [] adapter = "Price" -> PriceRequired
    [] OTHER -> {}

\* The required parameters of an operation: the ones shown for it.
Required(adapter, operation) ==
  RequiredParameters(adapter) \cap Shown(adapter, operation)

\* The switch of each execute(): url, method, queryParams and body of the
\* operation, from the parameters p read for the item.
SwapRequest(operation, p) ==
  CASE operation = "quote" ->
         [url |-> <<p.baseUrl, "/quote">>, method |-> "GET",
          queryParams |->
            Assign(p, {"inputMint", "outputMint", "amount", "slippageBps", "swapMode"},
                      {"dexes", "excludeDexes", "restrictIntermediateTokens",
                       "onlyDirectRoutes", "asLegacyTransaction",
                       "platformFeeBps", "maxAccounts"}),
          body |-> <<>>]
    [] operation = "swap" ->
         [url |-> <<p.baseUrl, "/swap">>, method |-> "POST",
          queryParams |-> <<>>,
          body |->
            Assign(p, {"inputMint", "outputMint", "amount", "slippageBps",
                       "userPublicKey", "wrapAndUnwrapSol", "useSharedAccounts"},
                      {"feeAccount", "computeUnitPriceMicroLamports"})]
    [] operation = "swapInstructions" ->
         [url |-> <<p.baseUrl, "/swap-instructions">>, method |-> "POST",
          queryParams |-> <<>>,
          body |->
            Assign(p, {"inputMint", "outputMint", "amount", "slippageBps",
                       "userPublicKey", "wrapAndUnwrapSol", "useSharedAccounts"},
                      {"feeAccount", "computeUnitPriceMicroLamports"})]
    [] operation = "programIdToLabel" ->
         [url |-> <<p.baseUrl, "/program-id-to-label">>, method |-> "GET",
          queryParams |-> <<>>, body |-> <<>>]

\* TriggerRequest with a defect: cancelOrder assigns maker under if (maker).
TriggerRequestMakerGuarded(operation, p) ==
  CASE operation = "createOrder" ->
         [url |-> <<p.baseUrl, "/createOrder">>, method |-> "POST",
          queryParams |-> <<>>,
          body |->
            Assign(p, {"inputMint", "outputMint", "amount", "maker",
                       "triggerPrice", "triggerCondition", "slippageBps"}, {})]
    [] operation = "cancelOrder" ->
         [url |-> <<p.baseUrl, "/cancelOrder">>, method |-> "POST",
          queryParams |-> <<>>,
          body |-> Assign(p, {}, {"maker", "orderId"})]
    [] operation = "cancelOrders" ->
         [url |-> <<p.baseUrl, "/cancelOrders">>, method |-> "POST",
          queryParams |-> <<>>,
          body |->
            [k \in {"maker"} \cup {g \in {"orderIds"} : Truthy(g, p[g])} |->
               IF k = "orderIds" THEN SplitTrim(p.orderIds) ELSE p[k]]]
    [] operation = "execute" ->
         [url |-> <<p.baseUrl, "/execute">>, method |-> "POST",
          queryParams |-> <<>>,
          body |-> Assign(p, {"signedTransaction", "requestId"}, {})]
    [] operation = "getTriggerOrders" ->
         [url |-> <<p.baseUrl, "/getTriggerOrders">>, method |-> "GET",
          queryParams |-> Assign(p, {"account", "orderType"}, {}),
          body |-> <<>>]

TriggerRequest(operation, p) ==
  CASE operation = "createOrder" ->
         [url |-> <<p.baseUrl, "/createOrder">>, method |-> "POST",
          queryParams |-> <<>>,
          body |->
            Assign(p, {"inputMint", "outputMint", "amount", "maker",
                       "triggerPrice", "triggerCondition", "slippageBps"}, {})]
    [] operation = "cancelOrder" ->
         [url |-> <<p.baseUrl, "/cancelOrder">>, method |-> "POST",
          queryParams |-> <<>>,
          body |-> Assign(p, {"maker"}, {"orderId"})]
    [] operation = "cancelOrders" ->
         [url |-> <<p.baseUrl, "/cancelOrders">>, method |-> "POST",
          queryParams |-> <<>>,
          body |->
            [k \in {"maker"} \cup {g \in {"orderIds"} : Truthy(g, p[g])} |->
               IF k = "orderIds" THEN SplitTrim(p.orderIds) ELSE p[k]]]
    [] operation = "execute" ->
         [url |-> <<p.baseUrl, "/execute">>, method |-> "POST",
          queryParams |-> <<>>,
          body |-> Assign(p, {"signedTransaction", "requestId"}, {})]
    [] operation = "getTriggerOrders" ->
         [url |-> <<p.baseUrl, "/getTriggerOrders">>, method |-> "GET",
          queryParams |-> Assign(p, {"account", "orderType"}, {}),
          body |-> <<>>]

\* UltraRequest with a defect: the address of balances goes into the query
\* string and not into the path.
UltraRequestAddressInQuery(operation, p) ==
  CASE operation = "order" ->
         [url |-> <<p.baseUrl, "/order">>, method |-> "GET",
          queryParams |->
            Assign(p, {"inputMint", "outputMint", "amount"},
                      {"taker", "referralAccount", "referralFee", "excludeRouters"}),
          body |-> <<>>]
    [] operation = "execute" ->
         [url |-> <<p.baseUrl, "/execute">>, method |-> "POST",
          queryParams |-> <<>>,
          body |-> Assign(p, {"signedTransaction", "requestId"}, {})]
    [] operation = "balances" ->
         [url |-> <<p.baseUrl, "/balances">>, method |-> "GET",
          queryParams |-> Assign(p, {"address"}, {}), body |-> <<>>]
    [] operation = "shield" ->
         [url |-> <<p.baseUrl, "/shield">>, method |-> "GET",
          queryParams |-> Assign(p, {"mints"}, {}), body |-> <<>>]
    [] operation = "routers" ->
         [url |-> <<p.baseUrl, "/order/routers">>, method |-> "GET",
          queryParams |-> <<>>, body |-> <<>>]
    [] operation = "search" ->
         [url |-> <<p.baseUrl, "/search">>, method |-> "GET",
          queryParams |-> Assign(p, {"query"}, {}), body |-> <<>>]

UltraRequest(operation, p) ==
  CASE operation = "order" ->
         [url |-> <<p.baseUrl, "/order">>, method |-> "GET",
          queryParams |->
            Assign(p, {"inputMint", "outputMint", "amount"},
                      {"taker", "referralAccount", "referralFee", "excludeRouters"}),
          body |-> <<>>]
    [] operation = "execute" ->
         [url |-> <<p.baseUrl, "/execute">>, method |-> "POST",
          queryParams |-> <<>>,
          body |-> Assign(p, {"signedTransaction", "requestId"}, {})]
    [] operation = "balances" ->
         [url |-> <<p.baseUrl, "/balances/", p.address>>, method |-> "GET",
          queryParams |-> <<>>, body |-> <<>>]
    [] operation = "shield" ->
         [url |-> <<p.baseUrl, "/shield">>, method |-> "GET",
          queryParams |-> Assign(p, {"mints"}, {}), body |-> <<>>]
    [] operation = "routers" ->
         [url |-> <<p.baseUrl, "/order/routers">>, method |-> "GET",
          queryParams |-> <<>>, body |-> <<>>]
    [] operation = "search" ->
         [url |-> <<p.baseUrl, "/search">>, method |-> "GET",
          queryParams |-> Assign(p, {"query"}, {}), body |-> <<>>]

RecurringRequest(operation, p) ==
  CASE operation = "createOrder" ->
         [url |-> <<p.baseUrl, "/createOrder">>, method |-> "POST",
          queryParams |-> <<>>,
          body |->
            Assign(p, {"inputMint", "outputMint", "amount", "maker",
                       "recurringType", "slippageBps"}, {})]
    [] operation = "cancelOrder" ->
         [url |-> <<p.baseUrl, "/cancelOrder">>, method |-> "POST",
          queryParams |-> <<>>,
          body |->
            Assign(p, {"inputMint", "outputMint", "maker", "recurringType"},
                      {"orderId"})]
    [] operation = "execute" ->
         [url |-> <<p.baseUrl, "/execute">>, method |-> "POST",
          queryParams |-> <<>>,
          body |-> Assign(p, {"signedTransaction", "requestId", "recurringType"}, {})]
    [] operation = "getRecurringOrders" ->
         [url |-> <<p.baseUrl, "/getRecurringOrders">>, method |-> "GET",
          queryParams |-> Assign(p, {"account", "orderType"}, {}),
          body |-> <<>>]
    [] operation = "priceDeposit" ->
         [url |-> <<p.baseUrl, "/priceDeposit">>, method |-> "POST",
          queryParams |-> <<>>,
          body |-> Assign(p, {"inputMint", "outputMint", "amount", "maker"}, {})]
    [] operation = "priceWithdraw" ->
         [url |-> <<p.baseUrl, "/priceWithdraw">>, method |-> "POST",
          queryParams |-> <<>>,
          body |-> Assign(p, {"inputMint", "outputMint", "amount", "maker"}, {})]

\* JupiterToken and JupiterPrice have no method or body variable: the
\* options are always a GET.
TokenRequest(operation, p) ==
  CASE operation = "search" ->
         [url |-> <<p.baseUrl, "/search">>, method |-> "GET",
          queryParams |-> Assign(p, {}, {"query", "limit"}), body |-> <<>>]
    [] operation = "tag" ->
         [url |-> <<p.baseUrl, "/tag/", p.tag>>, method |-> "GET",
          queryParams |-> <<>>, body |-> <<>>]
    [] operation = "category" ->
         [url |-> <<p.baseUrl, "/", p.category, "/", p.interval>>, method |-> "GET",
          queryParams |-> <<>>, body |-> <<>>]
    [] operation = "recent" ->
         [url |-> <<p.baseUrl, "/recent">>, method |-> "GET",
          queryParams |-> <<>>, body |-> <<>>]

PriceRequest(operation, p) ==
  [url |-> <<p.baseUrl, "/price">>, method |-> "GET",
   queryParams |-> Assign(p, {}, {"ids", "vsToken", "vsTokenAddress", "showExtraInfo"}),
   body |-> <<>>]

Request(adapter, operation, p) ==
  CASE adapter = "Swap" -> SwapRequest(operation, p)
    [] adapter = "Trigger" -> TriggerRequest(operation, p)
    [] adapter = "Ultra" -> UltraRequest(operation, p)
    [] adapter = "Recurring" -> RecurringRequest(operation, p)
    [] adapter = "Token" -> TokenRequest(operation, p)
    [] adapter = "Price" -> PriceRequest(operation, p)

\* RequestOptions with a defect: the test for a body looks at the query map.
RequestOptionsBodyByQuery(request) ==
  [method |-> request.method, url |-> request.url,
   qs |-> request.queryParams, json |-> TRUE]
  @@ (IF request.method = "POST" /\ DOMAIN request.queryParams # {}
      THEN [body |-> request.body] ELSE <<>>)

\* RequestOptions with a defect: the query map is not passed on.
RequestOptionsWithoutQs(request) ==
  [method |-> request.method, url |-> request.url, qs |-> <<>>, json |-> TRUE]
  @@ (IF request.method = "POST" /\ DOMAIN request.body # {}
      THEN [body |-> request.body] ELSE <<>>)

\* const options = {method, url, qs: queryParams, json: true};
\* if (method === 'POST' && Object.keys(body).length > 0) options.body = body;
RequestOptions(request) ==
  [method |-> request.method, url |-> request.url,
   qs |-> request.queryParams, json |-> TRUE]
  @@ (IF request.method = "POST" /\ DOMAIN request.body # {}
      THEN [body |-> request.body] ELSE <<>>)

\* ------------------------------------------------------ parameter reading
\* The parameters a user has set on the node: any of the parameters the
\* operation reads, each to a value other than its default.
RECURSIVE Settings(_, _)
Settings(adapter, names) ==
  IF names = {} THEN {<<>>}
  ELSE LET name == CHOOSE n \in names : TRUE
       IN {(name :> value) @@ rest :
             value \in ParameterValues(name) \ {Defaults(adapter)[name]},
             rest \in Settings(adapter, names \ {name})}

UserSettings(adapter, operation, most) ==
  UNION {Settings(adapter, names) :
           names \in {S \in SUBSET Reads(adapter, operation) : Cardinality(S) <= most}}

\* GetNodeParameters with a defect: a falsy setting falls back to the default
\* (settings[name] || default).
GetNodeParametersOrDefault(adapter, operation, settings) ==
  [name \in Reads(adapter, operation) |->
     IF name \in DOMAIN settings /\ Truthy(name, settings[name])
     THEN settings[name] ELSE Defaults(adapter)[name]]

\* this.getNodeParameter(name, itemIndex) of every parameter the branch
\* reads: the value the user set, or else the catalog default.
GetNodeParameters(adapter, operation, settings) ==
  [name \in Reads(adapter, operation) |->
     IF name \in DOMAIN settings THEN settings[name] ELSE Defaults(adapter)[name]]

\* ------------------------------------------------------------ the runtime
\* What getCredentials('jupiterApi') can resolve to: nothing, a credential
\* whose API key was left empty, a credential with a key.
CredentialValues == {<<>>, [apiKey |-> ""], [apiKey |-> "key-1"]}

\* What helpers.httpRequest can resolve to (parsed JSON).
Responses == {[data |-> "r1"], [data |-> "r2"]}

\* error.message of the failures of the runtime.
ParameterErrorMessage == <<"Could not get parameter">>
HttpErrorMessage == <<"Request failed with status code 500">>

\* `Unknown operation: ${operation}`
UnknownOperationMessage(operation) == <<"Unknown operation: ", operation>>

\* ------------------------------------------------------------------ state
VARIABLES
  adapter,         \* which node class runs
  continueOnFail,  \* this.continueOnFail(): the node's "continue on fail" setting
  items,           \* items.length
  nodeOperation,   \* the operation read for the current item, "" before
  itemIndex,       \* the loop variable
  pc,              \* where execute() is
  nodeParameters,  \* the settings of the current item
  parameters,      \* the values read for the current item
  options,         \* the IHttpRequestOptions of the current item
  credentials,     \* the outcome of the credential lookup of the current item
  returnData,      \* the accumulated output items
  returned,        \* <<>> or <<the value execute() returned>>
  thrown,          \* <<>> or <<the error execute() threw>>
  resolutions,     \* history: the item index of each parameter reading
  lookups,         \* history: the item index of each getCredentials call
  requests,        \* history: the item index of each httpRequest call
  sentHeaders,     \* history: the headers of the requests made (<<>>: none)
  responses,       \* history: item index -> what httpRequest resolved to
  failures         \* history: item index -> message of the error caught

config == <<adapter, continueOnFail, items>>
locals == <<nodeOperation, nodeParameters, parameters, options, credentials>>
outcome == <<returnData, returned, thrown>>
history == <<resolutions, lookups, requests, sentHeaders, responses, failures>>
vars == <<config, itemIndex, pc, locals, outcome, history>>

\* SuccessRecord with a defect: every success is paired with the first item.
SuccessRecordFirstItem(response, index) == [json |-> response, pairedItem |-> 0]

\* SuccessRecord with a defect: the response variable is hoisted out of the
\* loop and keeps the response of the first item.
SuccessRecordFirstResponse(response, index) ==
  [json |-> IF 0 \in DOMAIN responses THEN responses[0] ELSE response,
   pairedItem |-> index]

\* returnData.push({json: response, pairedItem: itemIndex})
SuccessRecord(response, index) == [json |-> response, pairedItem |-> index]

\* ErrorRecord with a defect: a fixed text in place of error.message.
ErrorRecordFixedText(message, index) ==
  [json |-> [error |-> <<"error">>], pairedItem |-> index]

\* returnData.push({json: {error: error.message}, pairedItem: itemIndex})
ErrorRecord(message, index) == [json |-> [error |-> message], pairedItem |-> index]

\* NodeOperationError with a defect: the item index is not passed on.
NodeOperationErrorFirstItem(message, index) == [message |-> message, itemIndex |-> 0]

\* new NodeOperationError(this.getNode(), error, {itemIndex})
NodeOperationError(message, index) == [message |-> message, itemIndex |-> index]

\* CredentialHeaders with a defect: the apiKey test is missing.
CredentialHeadersAnyKey(lookup) ==
  IF lookup.result = "returned" /\ lookup.value # <<>>
  THEN [headers |-> ("x-api-key" :> lookup.value.apiKey)]
  ELSE <<>>

\* if (credentials && credentials.apiKey) options.headers = {'x-api-key': ...};
\* a lookup that threw leaves the options alone.
CredentialHeaders(lookup) ==
  IF /\ lookup.result = "returned"
     /\ lookup.value # <<>>
     /\ lookup.value.apiKey # ""
  THEN [headers |-> ("x-api-key" :> lookup.value.apiKey)]
  ELSE <<>>

Init ==
  /\ adapter \in Adapters
  /\ continueOnFail \in BOOLEAN
  /\ items \in 0..MaxItems
  /\ nodeOperation = ""
  /\ itemIndex = 0
  /\ pc = "resolve"
  /\ nodeParameters = <<>>
  /\ parameters = <<>>
  /\ options = <<>>
  /\ credentials = <<>>
  /\ returnData = <<>>
  /\ returned = <<>>
  /\ thrown = <<>>
  /\ resolutions = <<>>
  /\ lookups = <<>>
  /\ requests = <<>>
  /\ sentHeaders = {}
  /\ responses = <<>>
  /\ failures = <<>>

\* NextItem with a defect: options and credentials are declared outside the
\* loop and keep what the item before left in them.
NextItemKeepingLocals ==
  /\ itemIndex' = itemIndex + 1
  /\ pc' = "resolve"
  /\ nodeOperation' = ""
  /\ nodeParameters' = <<>>
  /\ parameters' = <<>>
  /\ UNCHANGED <<options, credentials>>

\* The next iteration of the for loop: itemIndex++ and fresh block locals.
NextItem ==
  /\ itemIndex' = itemIndex + 1
  /\ pc' = "resolve"
  /\ nodeOperation' = ""
  /\ nodeParameters' = <<>>
  /\ parameters' = <<>>
  /\ options' = <<>>
  /\ credentials' = <<>>

\* Catch with a defect: continueOnFail swallows the error without a record.
CatchDropping(message) ==
  /\ failures' = failures @@ (itemIndex :> message)
  /\ IF continueOnFail
     THEN /\ NextItem
          /\ UNCHANGED <<returnData, returned, thrown>>
     ELSE /\ thrown' = <<NodeOperationError(message, itemIndex)>>
          /\ pc' = "aborted"
          /\ UNCHANGED <<itemIndex, locals, returnData, returned>>

\* Catch with a defect: the error record is pushed before the mode is tested.
CatchPushingFirst(message) ==
  /\ failures' = failures @@ (itemIndex :> message)
  /\ returnData' = Append(returnData, ErrorRecord(message, itemIndex))
  /\ IF continueOnFail
     THEN /\ NextItem
          /\ UNCHANGED <<returned, thrown>>
     ELSE /\ thrown' = <<NodeOperationError(message, itemIndex)>>
          /\ pc' = "aborted"
          /\ UNCHANGED <<itemIndex, locals, returned>>

\* Catch with a defect: without continueOnFail the loop is left with a
\* break, so the items collected so far are returned after the throw is set.
CatchReturning(message) ==
  /\ failures' = failures @@ (itemIndex :> message)
  /\ IF continueOnFail
     THEN /\ returnData' = Append(returnData, ErrorRecord(message, itemIndex))
          /\ NextItem
          /\ UNCHANGED <<returned, thrown>>
     ELSE /\ thrown' = <<NodeOperationError(message, itemIndex)>>
          /\ returned' = <<returnData>>
          /\ pc' = "aborted"
          /\ UNCHANGED <<itemIndex, locals, returnData>>

\* Catch with a defect: the mode is used up by the first failure, and every
\* later failure is rethrown.
CatchIsolatingOnce(message) ==
  /\ failures' = failures @@ (itemIndex :> message)
  /\ IF continueOnFail /\ DOMAIN failures = {}
     THEN /\ returnData' = Append(returnData, ErrorRecord(message, itemIndex))
          /\ NextItem
          /\ UNCHANGED <<returned, thrown>>
     ELSE /\ thrown' = <<NodeOperationError(message, itemIndex)>>
          /\ pc' = "aborted"
          /\ UNCHANGED <<itemIndex, locals, returnData, returned>>

\* The catch block of the loop body.
Catch(message) ==
  /\ failures' = failures @@ (itemIndex :> message)
  /\ IF continueOnFail
     THEN /\ returnData' = Append(returnData, ErrorRecord(message, itemIndex))
          /\ NextItem
          /\ UNCHANGED <<returned, thrown>>
     ELSE /\ thrown' = <<NodeOperationError(message, itemIndex)>>
          /\ pc' = "aborted"
          /\ UNCHANGED <<itemIndex, locals, returnData, returned>>

\* getNodeParameter('baseUrl', itemIndex) and getNodeParameter('operation',
\* itemIndex): the operation of the item, which may be none of the cases of
\* the switch.  JupiterPrice reads no operation and has no switch.
ReadOperation ==
  /\ pc = "resolve"
  /\ itemIndex < items
  /\ nodeOperation' \in Operations(adapter) \cup
                        (IF adapter = "Price" THEN {} ELSE {UnknownOperation})
  /\ resolutions' = Append(resolutions, itemIndex)
  /\ pc' = "switch"
  /\ UNCHANGED <<config, itemIndex, nodeParameters, parameters, options,
                 credentials, outcome, lookups, requests, sentHeaders, responses, failures>>

\* ParameterError with a defect: the credentials are looked up before the
\* parameters are read.
ParameterErrorAfterLookup ==
  /\ \/ /\ pc = "resolve"
        /\ itemIndex < items
        /\ resolutions' = Append(resolutions, itemIndex)
     \/ /\ pc = "switch"
        /\ nodeOperation \in Operations(adapter)
        /\ Reads(adapter, nodeOperation) # {"baseUrl"}
        /\ UNCHANGED resolutions
  /\ lookups' = Append(lookups, itemIndex)
  /\ Catch(ParameterErrorMessage)
  /\ UNCHANGED <<config, requests, sentHeaders, responses>>

\* A getNodeParameter call of the item throws: the read of baseUrl or of the
\* operation, or a read of the operation's branch.
ParameterError ==
  /\ \/ /\ pc = "resolve"
        /\ itemIndex < items
        /\ resolutions' = Append(resolutions, itemIndex)
     \/ /\ pc = "switch"
        /\ nodeOperation \in Operations(adapter)
        /\ Reads(adapter, nodeOperation) # {"baseUrl"}
        /\ UNCHANGED resolutions
  /\ Catch(ParameterErrorMessage)
  /\ UNCHANGED <<config, lookups, requests, sentHeaders, responses>>

\* UnknownOperationError with a defect: the switch has no default branch, so
\* the empty url and the GET the locals start with go on to the request.
UnknownOperationFallsThrough ==
  /\ pc = "switch"
  /\ nodeOperation \notin Operations(adapter)
  /\ options' = [method |-> "GET", url |-> <<>>, qs |-> <<>>, json |-> TRUE]
  /\ pc' = "credentials"
  /\ UNCHANGED <<config, itemIndex, nodeOperation, nodeParameters, parameters,
                 credentials, outcome, history>>

\* The default branch of the switch.
UnknownOperationError ==
  /\ pc = "switch"
  /\ nodeOperation \notin Operations(adapter)
  /\ Catch(UnknownOperationMessage(nodeOperation))
  /\ UNCHANGED <<config, resolutions, lookups, requests, sentHeaders, responses>>

\* The getNodeParameter calls of the operation's branch.
ResolveParameters ==
  /\ pc = "switch"
  /\ nodeOperation \in Operations(adapter)
  /\ \E settings \in UserSettings(adapter, nodeOperation, MaxOverrides) :
       /\ nodeParameters' = settings
       /\ parameters' = GetNodeParameters(adapter, nodeOperation, settings)
  /\ pc' = "build"
  /\ UNCHANGED <<config, itemIndex, nodeOperation, options, credentials, outcome,
                 history>>

\* The assignments of the branch and the options object.
BuildRequest ==
  /\ pc = "build"
  /\ options' = RequestOptions(Request(adapter, nodeOperation, parameters))
  /\ pc' = "credentials"
  /\ UNCHANGED <<config, itemIndex, nodeOperation, nodeParameters, parameters,
                 credentials, outcome, history>>

\* GetCredentials with a defect: the inner try is missing, so a lookup that
\* throws reaches the catch block of the loop body.
GetCredentialsUnguarded ==
  /\ pc = "credentials"
  /\ lookups' = Append(lookups, itemIndex)
  /\ \/ /\ Catch(<<"Credentials could not be found">>)
        /\ UNCHANGED <<config, resolutions, requests, sentHeaders, responses>>
     \/ /\ \E c \in CredentialValues :
             /\ credentials' = [result |-> "returned", value |-> c]
             /\ options' = options @@ CredentialHeaders(credentials')
        /\ pc' = "http"
        /\ UNCHANGED <<config, itemIndex, nodeOperation, nodeParameters,
                       parameters, outcome, resolutions, requests, sentHeaders, responses,
                       failures>>

\* The inner try around getCredentials: its catch is empty.
GetCredentials ==
  /\ pc = "credentials"
  /\ \E lookup \in {[result |-> "threw", value |-> <<>>]} \cup
                   {[result |-> "returned", value |-> c] : c \in CredentialValues} :
       /\ credentials' = lookup
       /\ options' = options @@ CredentialHeaders(lookup)
  /\ lookups' = Append(lookups, itemIndex)
  /\ pc' = "http"
  /\ UNCHANGED <<config, itemIndex, nodeOperation, nodeParameters, parameters,
                 outcome, resolutions, requests, sentHeaders, responses, failures>>

\* HttpRequest with a defect: the call is not awaited, and the loop goes on
\* to the next item while it is pending.
HttpRequestNotAwaited ==
  /\ pc = "http"
  /\ requests' = Append(requests, itemIndex)
  /\ sentHeaders' = sentHeaders \cup
       {IF "headers" \in DOMAIN options THEN options.headers ELSE <<>>}
  /\ NextItem
  /\ UNCHANGED <<config, outcome, resolutions, lookups, responses, failures>>

\* await this.helpers.httpRequest(options): the call is made.
HttpRequest ==
  /\ pc = "http"
  /\ requests' = Append(requests, itemIndex)
  /\ sentHeaders' = sentHeaders \cup
       {IF "headers" \in DOMAIN options THEN options.headers ELSE <<>>}
  /\ pc' = "response"
  /\ UNCHANGED <<config, itemIndex, locals, outcome,
                 resolutions, lookups, responses, failures>>

\* HttpResponse with a defect: without continueOnFail the output is assigned
\* the response and not appended to.
HttpResponseByMode ==
  /\ pc = "response"
  /\ \E response \in Responses :
       /\ responses' = responses @@ (itemIndex :> response)
       /\ returnData' =
            IF continueOnFail
            THEN Append(returnData, SuccessRecord(response, itemIndex))
            ELSE <<SuccessRecord(response, itemIndex)>>
  /\ NextItem
  /\ UNCHANGED <<config, returned, thrown, resolutions, lookups, requests,
                 sentHeaders, failures>>

\* The call resolves: the response is pushed.
HttpResponse ==
  /\ pc = "response"
  /\ \E response \in Responses :
       /\ responses' = responses @@ (itemIndex :> response)
       /\ returnData' = Append(returnData, SuccessRecord(response, itemIndex))
  /\ NextItem
  /\ UNCHANGED <<config, returned, thrown, resolutions, lookups, requests,
                 sentHeaders, failures>>

\* HttpError with a defect: a rejected call is made once more before the
\* error is let through.
HttpErrorRetried ==
  /\ pc = "response"
  /\ IF Cardinality({k \in 1..Len(requests) : requests[k] = itemIndex}) < 2
     THEN /\ pc' = "http"
          /\ UNCHANGED <<config, itemIndex, locals, outcome, history>>
     ELSE /\ Catch(HttpErrorMessage)
          /\ UNCHANGED <<config, resolutions, lookups, requests, sentHeaders, responses>>

\* The call rejects.
HttpError ==
  /\ pc = "response"
  /\ Catch(HttpErrorMessage)
  /\ UNCHANGED <<config, resolutions, lookups, requests, sentHeaders, responses>>

\* Return with a defect: the loop condition is itemIndex <= items.length, so
\* the loop is not left at the end of the input.
ReturnOffByOne ==
  /\ pc = "resolve"
  /\ itemIndex > items
  /\ returned' = <<returnData>>
  /\ pc' = "done"
  /\ UNCHANGED <<config, itemIndex, locals, returnData, thrown, history>>

\* The loop condition fails: return [returnData].
Return ==
  /\ pc = "resolve"
  /\ itemIndex >= items
  /\ returned' = <<returnData>>
  /\ pc' = "done"
  /\ UNCHANGED <<config, itemIndex, locals, returnData, thrown, history>>

Next ==
  \/ ReadOperation
  \/ ParameterError
  \/ UnknownOperationError
  \/ ResolveParameters
  \/ BuildRequest
  \/ GetCredentials
  \/ HttpRequest
  \/ HttpResponse
  \/ HttpError
  \/ Return

Spec == Init /\ [][Next]_vars

\* execute() is one thread of straight-line code: while some step of it can
\* be taken, one is taken; the credential lookup and the HTTP call in
\* particular come back, with a value or an error.
FairSpec == Spec /\ WF_vars(Next)

\* --------------------------------------------- request building, in full
\* One item whose parameters the user has set in any way at all, read and
\* about to be built.
BuildInit ==
  /\ adapter \in Adapters
  /\ continueOnFail = TRUE
  /\ items = 1
  /\ nodeOperation \in Operations(adapter)
  /\ itemIndex = 0
  /\ pc = "build"
  /\ nodeParameters \in
       UserSettings(adapter, nodeOperation, Cardinality(Reads(adapter, nodeOperation)))
  /\ parameters = GetNodeParameters(adapter, nodeOperation, nodeParameters)
  /\ options = <<>>
  /\ credentials = <<>>
  /\ returnData = <<>>
  /\ returned = <<>>
  /\ thrown = <<>>
  /\ resolutions = <<0>>
  /\ lookups = <<>>
  /\ requests = <<>>
  /\ sentHeaders = {}
  /\ responses = <<>>
  /\ failures = <<>>

BuildNext == BuildRequest

BuildSpec == BuildInit /\ [][BuildNext]_vars

\* ----------------------------------------------------------------- claims
\* The positions of the output sequence data that carry origin index i.
RecordsOf(data, i) == {k \in 1..Len(data) : data[k].pairedItem = i}

\* The item indices a history sequence mentions.
Indices(sequence) == {sequence[k] : k \in 1..Len(sequence)}

\* The success records of the items 0..n-1, in input order.
SuccessesBefore(n) == [k \in 1..n |-> [json |-> responses[k - 1], pairedItem |-> k - 1]]

\* C1: with continueOnFail, whatever mix of successes and failures the items
\* have, execute() returns exactly items.length records, exactly one of them
\* for each input item.
IsolationReturnsOnePerItem ==
  (continueOnFail /\ pc = "done") =>
    /\ Len(returned) = 1
    /\ Len(returned[1]) = items
    /\ \A i \in 0..(items - 1) : Cardinality(RecordsOf(returned[1], i)) = 1

IsolationMixedRunReturned ==
  /\ continueOnFail
  /\ pc = "done"
  /\ items = 2
  /\ DOMAIN failures = {0}
  /\ DOMAIN responses = {1}

\* C2: at every point of a run the k-th record of the output sequence
\* (zero-based) has pairedItem = k, success and error records alike.
OutputOrderIsInputOrder ==
  /\ \A k \in 1..Len(returnData) : returnData[k].pairedItem = k - 1
  /\ returned # <<>> => \A k \in 1..Len(returned[1]) : returned[1][k].pairedItem = k - 1

SuccessAfterErrorInOutput ==
  /\ Len(returnData) = 2
  /\ "error" \in DOMAIN returnData[1].json
  /\ "error" \notin DOMAIN returnData[2].json

\* C3: without continueOnFail the first failure, at item i, ends the run at
\* once: no record for item i is ever in the output, and no parameter is
\* read, no credential looked up and no HTTP request made for an item after i.
AbortStopsAtFirstFailure ==
  ~continueOnFail =>
    \A i \in DOMAIN failures :
      /\ pc = "aborted"
      /\ itemIndex = i
      /\ RecordsOf(returnData, i) = {}
      /\ \A j \in Indices(resolutions) \cup Indices(lookups) \cup Indices(requests) : j <= i

AbortedBeforeLastItem ==
  /\ ~continueOnFail
  /\ pc = "aborted"
  /\ DOMAIN failures = {0}
  /\ requests = <<0>>
  /\ items = 2

\* C4 as claimed: without continueOnFail, when the run stops at the first
\* failing item i, the success records of the items 0..i-1 are in the output
\* of the invocation.
AbortOutputHasPriorSuccesses ==
  (~continueOnFail /\ pc = "aborted") =>
    \A j \in 0..(thrown[1].itemIndex - 1) :
      /\ returned # <<>>
      /\ \E k \in 1..Len(returned[1]) :
           returned[1][k] = [json |-> responses[j], pairedItem |-> j]

\* C4 as amended: without continueOnFail, when the run stops at the first
\* failing item i, the success records of the items 0..i-1, in order, are
\* what returnData holds at the throw, and execute() returns nothing: the
\* collected records leave with the error.
AbortKeepsPriorSuccessesUnreturned ==
  (~continueOnFail /\ pc = "aborted") =>
    /\ returnData = SuccessesBefore(thrown[1].itemIndex)
    /\ returned = <<>>

AbortedAfterOneSuccess ==
  /\ ~continueOnFail
  /\ pc = "aborted"
  /\ thrown[1].itemIndex = 1
  /\ Len(returnData) = 1

\* C5: without continueOnFail a failure of any kind at item i ends the
\* invocation with an error that carries itemIndex = i and the message of the
\* failure, and nothing is returned.
AbortThrowsWithItemIndex ==
  ~continueOnFail =>
    \A i \in DOMAIN failures :
      /\ pc = "aborted"
      /\ thrown = <<[message |-> failures[i], itemIndex |-> i]>>
      /\ returned = <<>>

AbortedOnHttpErrorOfSecondItem ==
  /\ ~continueOnFail
  /\ pc = "aborted"
  /\ failures = (1 :> HttpErrorMessage)

\* C6: with continueOnFail every failure caught for item i is exactly one
\* record {error: message} with pairedItem = i, the loop has moved on to item
\* i + 1, and the run never ends with a throw.
IsolationTurnsFailuresIntoRecords ==
  continueOnFail =>
    /\ pc # "aborted"
    /\ thrown = <<>>
    /\ \A i \in DOMAIN failures :
         /\ itemIndex > i
         /\ Cardinality(RecordsOf(returnData, i)) = 1
         /\ returnData[i + 1] = [json |-> [error |-> failures[i]], pairedItem |-> i]
         /\ i + 1 < items /\ i + 1 \notin Indices(resolutions) =>
              (pc = "resolve" /\ itemIndex = i + 1)

IsolationSuccessThenHttpError ==
  /\ continueOnFail
  /\ pc = "done"
  /\ DOMAIN responses = {0}
  /\ failures = (1 :> HttpErrorMessage)

\* C7: for every item whose HTTP call succeeds, the output holds exactly one
\* record for it, and its json is what httpRequest resolved to for that
\* item, unchanged, with that item's index.
SuccessPayloadIsTheResponse ==
  \A i \in DOMAIN responses :
    /\ Cardinality(RecordsOf(returnData, i)) = 1
    /\ \A k \in RecordsOf(returnData, i) :
         returnData[k] = [json |-> responses[i], pairedItem |-> i]

TwoDifferentResponsesInOutput ==
  /\ DOMAIN responses = {0, 1}
  /\ responses[0] # responses[1]
  /\ Len(returnData) = 2

\* The keys of the query map and of the body of the built request.
SentKeys == DOMAIN options.qs \cup (IF "body" \in DOMAIN options THEN DOMAIN options.body ELSE {})

QuoteWithZeroSlippage ==
  /\ pc = "credentials"
  /\ adapter = "Swap"
  /\ nodeOperation = "quote"
  /\ nodeParameters = [inputMint |-> "A", outputMint |-> "B",
                       amount |-> "1000000", slippageBps |-> 0]

ApiKeyHeaderIffKey ==
  pc \in {"http", "response"} =>
    LET hasKey == /\ credentials.result = "returned"
                  /\ credentials.value # <<>>
                  /\ credentials.value.apiKey # ""
    IN /\ "headers" \in DOMAIN options <=> hasKey
       /\ hasKey => options.headers = ("x-api-key" :> credentials.value.apiKey)
       /\ itemIndex \notin DOMAIN failures
       /\ thrown = <<>>

RequestSentWithApiKey ==
  /\ pc = "response"
  /\ credentials = [result |-> "returned", value |-> [apiKey |-> "key-1"]]
  /\ options.headers = ("x-api-key" :> "key-1")
  /\ requests = <<0, 1>>


\* C11: a credential lookup that throws is swallowed, with continueOnFail and
\* without it: every item whose credentials were looked up gets its HTTP
\* request, no failure is caught for an item between its lookup and its
\* request, and while the item of a lookup that threw is at the request or
\* waiting for its response, nothing was thrown, no record and no failure
\* exist for it, and its options carry no headers.
CredentialFailureIsSwallowed ==
  /\ \A i \in Indices(lookups) :
       \/ i \in Indices(requests)
       \/ i = itemIndex /\ pc = "http"
  /\ \A i \in DOMAIN failures :
       i \in Indices(lookups) => failures[i] = HttpErrorMessage
  /\ (pc \in {"http", "response"} /\ credentials.result = "threw") =>
       /\ thrown = <<>>
       /\ itemIndex \notin DOMAIN failures
       /\ RecordsOf(returnData, itemIndex) = {}
       /\ "headers" \notin DOMAIN options
       /\ pc = "response" => itemIndex \in Indices(requests)

RequestSentAfterLookupThrew ==
  /\ ~continueOnFail
  /\ pc = "response"
  /\ itemIndex = 1
  /\ credentials.result = "threw"
  /\ requests = <<0, 1>>
  /\ "headers" \notin DOMAIN options

\* The operations that create, cancel or execute something.
Mutating(adapter_) ==
  CASE adapter_ = "Swap" -> {"swap", "swapInstructions"}
    [] adapter_ = "Trigger" -> {"createOrder", "cancelOrder", "cancelOrders", "execute"}
    [] adapter_ = "Ultra" -> {"execute"}
    [] adapter_ = "Recurring" ->
         {"createOrder", "cancelOrder", "execute", "priceDeposit", "priceWithdraw"}
    [] OTHER -> {}

\* C12: the options built for a mutating operation are a POST with a body
\* that is not empty; the keys of the body are parameters the catalog shows
\* for the operation, every shown parameter that is missing from the body has
\* a falsy value, and every key carries the value read for it (orderIds: its
\* tokens).
MutatingIsPostWithDeclaredBody ==
  (pc = "credentials" /\ nodeOperation \in Mutating(adapter)) =>
    /\ options.method = "POST"
    /\ "body" \in DOMAIN options
    /\ DOMAIN options.body # {}
    /\ DOMAIN options.body \subseteq Shown(adapter, nodeOperation)
    /\ \A n \in Shown(adapter, nodeOperation) :
         /\ n \in DOMAIN parameters
         /\ n \notin DOMAIN options.body => ~Truthy(n, parameters[n])
         /\ (n \in DOMAIN options.body /\ n # "orderIds") =>
              options.body[n] = parameters[n]

CancelOrderBodyWithoutOrderId ==
  /\ pc = "credentials"
  /\ adapter = "Trigger"
  /\ nodeOperation = "cancelOrder"
  /\ parameters.orderId = ""
  /\ options.method = "POST"
  /\ options.body = ("maker" :> "x")

\* The parameters the catalog shows for the operation that do not go into
\* the URL path.
NonPath(adapter_, operation) == Shown(adapter_, operation) \ InPath(adapter_, operation)

\* C13, as stated: the options built for a read operation are a GET without
\* a body, and every parameter of the operation that is not part of the path
\* is a key of the query string, with the value read for it.
ReadIsGetWithAllParametersInQuery ==
  (pc = "credentials" /\ nodeOperation \notin Mutating(adapter)) =>
    /\ options.method = "GET"
    /\ "body" \notin DOMAIN options
    /\ \A n \in NonPath(adapter, nodeOperation) :
         n \in DOMAIN options.qs /\ options.qs[n] = parameters[n]

\* C13, amended: the options built for a read operation are a GET without a
\* body; the keys of the query string are parameters of the operation that
\* are not part of the path, each with the value read for it, and the only
\* such parameters missing from the query string are the ones the branch
\* assigns under if (value) whose value is falsy.
ReadIsGetWithSentParametersInQuery ==
  (pc = "credentials" /\ nodeOperation \notin Mutating(adapter)) =>
    /\ options.method = "GET"
    /\ "body" \notin DOMAIN options
    /\ DOMAIN options.qs \subseteq NonPath(adapter, nodeOperation)
    /\ \A n \in NonPath(adapter, nodeOperation) :
         /\ n \in DOMAIN options.qs <=>
              (n \notin Guarded(adapter, nodeOperation) \/ Truthy(n, parameters[n]))
         /\ n \in DOMAIN options.qs => options.qs[n] = parameters[n]

OrderQueryWithTakerWithoutReferral ==
  /\ pc = "credentials"
  /\ adapter = "Ultra"
  /\ nodeOperation = "order"
  /\ options.method = "GET"
  /\ parameters.taker = "x"
  /\ parameters.referralAccount = ""
  /\ DOMAIN options.qs = {"inputMint", "outputMint", "amount", "taker"}
  /\ options.qs.taker = "x"

\* The tokens of a list, one after the other.
RECURSIVE Concat(_)
Concat(tokens) ==
  IF tokens = <<>> THEN <<>> ELSE Head(tokens) \o Concat(Tail(tokens))

\* The characters of a text that are neither a separator nor a blank.
Letters(text) == SelectSeq(text, LAMBDA c : c \notin {",", " "})

\* The number of commas of a text.
Commas(text) == Len(SelectSeq(text, LAMBDA c : c = ","))

\* C14: a comma-separated list that is put into the query string (dexes,
\* excludeDexes, excludeRouters, mints, ids) is there as the very text that
\* was read; the orderIds of a body are the fields of the text that was read:
\* one token more than the text has commas, no token with a comma in it or a
\* blank at either end, and the tokens in the order of the text.
ListsForwardedOrSplit ==
  pc = "credentials" =>
    /\ \A n \in ListParameters \cap DOMAIN options.qs : options.qs[n] = parameters[n]
    /\ ("body" \in DOMAIN options /\ "orderIds" \in DOMAIN options.body) =>
         LET text == parameters.orderIds
             tokens == options.body.orderIds
         IN /\ Len(tokens) = Commas(text) + 1
            /\ \A i \in 1..Len(tokens) :
                 /\ Commas(tokens[i]) = 0
                 /\ tokens[i] # <<>> =>
                      Head(tokens[i]) # " " /\ tokens[i][Len(tokens[i])] # " "
            /\ Letters(Concat(tokens)) = Letters(text)

CancelOrdersWithTwoOrderIds ==
  /\ pc = "credentials"
  /\ adapter = "Trigger"
  /\ nodeOperation = "cancelOrders"
  /\ parameters.orderIds = <<"a", ",", " ", "b">>
  /\ options.body.orderIds = << <<"a">>, <<"b">> >>

\* C15, as stated: no HTTP request is ever made for an item one of whose
\* required parameters was read as an empty value; the item fails before.
EmptyRequiredParameterIsNeverSent ==
  pc = "response" =>
    \A n \in Required(adapter, nodeOperation) : Truthy(n, parameters[n])

\* C16: while the operation read for an item is none of the adapter's, the
\* item is at the switch or the run has aborted on it with the Unknown
\* operation error carrying its index; no credential lookup and no request
\* was made for an item that failed with Unknown operation; and with
\* continueOnFail such an item has its one error record at its own position,
\* nothing is thrown, and every item that got a response has its success
\* record at its own position.
UnknownOperationFailsAlone ==
  /\ (nodeOperation # "" /\ nodeOperation \notin Operations(adapter)) =>
       /\ pc \in {"switch", "aborted"}
       /\ itemIndex \notin Indices(lookups) \cup Indices(requests)
       /\ pc = "aborted" =>
            /\ ~continueOnFail
            /\ thrown = <<[message |-> <<"Unknown operation: ", nodeOperation>>,
                           itemIndex |-> itemIndex]>>
  /\ \A i \in DOMAIN failures :
       (Len(failures[i]) = 2 /\ failures[i][1] = "Unknown operation: ") =>
         /\ failures[i][2] \notin Operations(adapter)
         /\ i \notin Indices(lookups) \cup Indices(requests)
         /\ i \notin DOMAIN responses
         /\ continueOnFail =>
              /\ thrown = <<>>
              /\ RecordsOf(returnData, i) = {i + 1}
              /\ returnData[i + 1].json = [error |-> failures[i]]
              /\ \A j \in DOMAIN responses :
                   returnData[j + 1] = [json |-> responses[j], pairedItem |-> j]

UnknownOperationThenSuccess ==
  /\ continueOnFail
  /\ pc = "done"
  /\ items = 2
  /\ failures = (0 :> <<"Unknown operation: ", "bogus">>)
  /\ DOMAIN responses = {1}
  /\ requests = <<1>>

\* The number of httpRequest calls made for item i.
Calls(i) == Cardinality({k \in 1..Len(requests) : requests[k] = i})

\* C17: in every run, with continueOnFail and without it, httpRequest is
\* called at most once for an item and no more often than there are items;
\* an item whose call failed is never again at the request or waiting for a
\* response.
NoRetry ==
  /\ \A i \in 0..MaxItems : Calls(i) <= 1
  /\ Len(requests) <= items
  /\ \A i \in DOMAIN failures :
       /\ failures[i] = HttpErrorMessage => Calls(i) = 1
       /\ ~(pc \in {"http", "response"} /\ itemIndex = i)

HttpErrorThenNextItemRequested ==
  /\ continueOnFail
  /\ pc = "done"
  /\ items = 2
  /\ failures = (0 :> HttpErrorMessage)
  /\ requests = <<0, 1>>
  /\ DOMAIN responses = {1}

\* The items whose httpRequest call has neither resolved nor rejected.
InFlight ==
  {i \in Indices(requests) : i \notin DOMAIN responses /\ i \notin DOMAIN failures}

\* C18: the items are taken up in input order, one after the other; at most
\* one request is pending, and it is the one of the current item; and when
\* the parameters of an item are read, every item before it has exactly one
\* record in the output, a success or an error record.
OneItemAtATime ==
  /\ \A k \in 1..Len(resolutions) : resolutions[k] = k - 1
  /\ Cardinality(InFlight) <= 1
  /\ InFlight # {} => InFlight = {itemIndex} /\ pc = "response"
  /\ \A i \in Indices(resolutions) :
       \A j \in 0..(i - 1) :
         /\ Cardinality(RecordsOf(returnData, j)) = 1
         /\ j \in DOMAIN responses \/ (continueOnFail /\ j \in DOMAIN failures)

SecondRequestPendingAfterFirstResult ==
  /\ pc = "response"
  /\ itemIndex = 1
  /\ InFlight = {1}
  /\ Len(returnData) = 1
  /\ returnData[1].pairedItem = 0

\* The steps from one stage of an item to the next, to the catch, and from
\* the push of a result to the next item or the return.
StageSteps ==
  {<<"resolve", "switch">>, <<"switch", "build">>, <<"build", "credentials">>,
   <<"credentials", "http">>, <<"http", "response">>, <<"response", "resolve">>,
   <<"switch", "resolve">>, <<"resolve", "aborted">>, <<"switch", "aborted">>,
   <<"response", "aborted">>, <<"resolve", "done">>}

\* What has and has not happened for the current item at each stage.
StageState ==
  /\ pc = "switch" =>
       /\ itemIndex \in Indices(resolutions)
       /\ parameters = <<>> /\ options = <<>> /\ credentials = <<>>
  /\ pc = "build" =>
       /\ parameters # <<>> /\ options = <<>> /\ credentials = <<>>
  /\ pc = "credentials" =>
       /\ parameters # <<>> /\ options # <<>> /\ credentials = <<>>
       /\ itemIndex \notin Indices(lookups)
  /\ pc = "http" =>
       /\ options # <<>> /\ credentials # <<>>
       /\ itemIndex \in Indices(lookups)
       /\ itemIndex \notin Indices(requests)
  /\ pc = "response" =>
       /\ itemIndex \in Indices(requests)
       /\ RecordsOf(returnData, itemIndex) = {}
  /\ \A k \in 1..Len(returnData) :
       returnData[k].pairedItem \in DOMAIN responses \cup DOMAIN failures

\* C19: an item goes through reading its operation and parameters, building
\* the options, the credential lookup, the request and the push of the result
\* in this order; a failure while reading or building is caught before the
\* next item is taken up (an error record with continueOnFail, the run
\* aborted without), and no credential lookup and no request is ever made
\* for such an item.
StagesInOrder ==
  /\ [](/\ StageState
        /\ Indices(requests) \subseteq Indices(lookups)
        /\ Indices(lookups) \subseteq Indices(resolutions)
        /\ DOMAIN responses \subseteq Indices(requests)
        /\ \A i \in DOMAIN failures :
             /\ failures[i] # HttpErrorMessage =>
                  i \notin Indices(lookups) \cup Indices(requests)
             /\ IF continueOnFail
                THEN /\ itemIndex > i
                     /\ Cardinality(RecordsOf(returnData, i)) = 1
                ELSE pc = "aborted" /\ itemIndex = i)
  /\ [][pc' # pc => <<pc, pc'>> \in StageSteps]_vars

RequestAfterParameterErrorOfFirstItem ==
  /\ continueOnFail
  /\ pc = "response"
  /\ itemIndex = 1
  /\ failures = (0 :> ParameterErrorMessage)
  /\ lookups = <<1>>
  /\ requests = <<1>>

\* C20: when an item is taken up, nothing of the item before is left: no
\* operation, no parameters, no options, no credentials.  The options of an
\* item are those of its own operation and the parameters read for it
\* (method, url, query string and body, their keys among the parameters of
\* the operation), and they have headers only for the API key its own
\* credential lookup returned.
DescriptorIsFresh ==
  /\ pc \in {"resolve", "done"} =>
       /\ nodeOperation = ""
       /\ nodeParameters = <<>> /\ parameters = <<>>
       /\ options = <<>> /\ credentials = <<>>
  /\ pc \in {"switch", "build"} => options = <<>> /\ credentials = <<>>
  /\ pc \in {"credentials", "http", "response"} =>
       LET request == Request(adapter, nodeOperation, parameters)
       IN /\ parameters = GetNodeParameters(adapter, nodeOperation, nodeParameters)
          /\ DOMAIN options \subseteq {"method", "url", "qs", "json", "body", "headers"}
          /\ options.method = request.method
          /\ options.url = request.url
          /\ options.qs = request.queryParams
          /\ DOMAIN options.qs \subseteq Reads(adapter, nodeOperation)
          /\ "body" \in DOMAIN options =>
               /\ options.body = request.body
               /\ DOMAIN options.body \subseteq Reads(adapter, nodeOperation)
          /\ pc = "credentials" =>
               credentials = <<>> /\ "headers" \notin DOMAIN options
          /\ pc \in {"http", "response"} =>
               IF "headers" \in DOMAIN options
               THEN /\ credentials.result = "returned"
                    /\ credentials.value # <<>>
                    /\ options.headers = ("x-api-key" :> credentials.value.apiKey)
               ELSE \/ credentials.result = "threw"
                    \/ credentials.value = <<>>
                    \/ credentials.value.apiKey = ""

SecondItemSentAfterFailedFirst ==
  /\ continueOnFail
  /\ pc = "response"
  /\ itemIndex = 1
  /\ failures = (0 :> HttpErrorMessage)
  /\ requests = <<0, 1>>
  /\ credentials.result = "threw"
  /\ "headers" \notin DOMAIN options

\* C21, as stated: the requests made in one run all make the same x-api-key
\* decision: all of them carry the same key, or none of them carries one.
OneApiKeyDecisionPerRun == Cardinality(sentHeaders) <= 1

\* The positions of the output that hold an error record.
ErrorRecords == {k \in 1..Len(returnData) : "error" \in DOMAIN returnData[k].json}

\* C22: the mode does not change during a run, and all failures of a run are
\* handled under it: with continueOnFail every failure has its error record
\* and nothing is ever thrown; without it there is at most one failure, it is
\* thrown, and the output holds no error record.
OneModePerRun ==
  /\ [](IF continueOnFail
        THEN /\ thrown = <<>>
             /\ pc # "aborted"
             /\ Cardinality(ErrorRecords) = Cardinality(DOMAIN failures)
        ELSE /\ ErrorRecords = {}
             /\ Cardinality(DOMAIN failures) <= 1
             /\ DOMAIN failures # {} => thrown # <<>> /\ pc = "aborted")
  /\ [][continueOnFail' = continueOnFail]_vars

TwoFailuresIsolated ==
  /\ continueOnFail
  /\ pc = "done"
  /\ DOMAIN failures = {0, 1}
  /\ ErrorRecords = {1, 2}
  /\ thrown = <<>>

\* C23: every run comes to an end, either done (every item read once, the
\* output returned, nothing thrown) or aborted (an error thrown, nothing
\* returned); no item is read twice; and once the run has ended nothing
\* happens any more.
RunTerminatesOnce ==
  /\ <>(pc \in {"done", "aborted"})
  /\ [](/\ pc = "done" =>
             /\ resolutions = [k \in 1..items |-> k - 1]
             /\ returned = <<returnData>>
             /\ thrown = <<>>
        /\ pc = "aborted" => thrown # <<>> /\ returned = <<>>
        /\ (returned # <<>> \/ thrown # <<>>) => pc \in {"done", "aborted"}
        /\ \A k \in 1..Len(resolutions) : resolutions[k] = k - 1)
  /\ [][pc \notin {"done", "aborted"}]_vars

DoneAfterTwoItems ==
  /\ pc = "done"
  /\ items = 2
  /\ resolutions = <<0, 1>>
  /\ Len(returned[1]) = 2

\* C24, as stated: the parameters read for an item, baseUrl aside, are all
\* displayed by the catalog for the item's operation under the values read.
OnlyVisibleParametersAreRead ==
  pc = "build" =>
    DOMAIN parameters \ {"baseUrl"} \subseteq Visible(adapter, nodeOperation, parameters)

\* The parameters read for the item with everything but baseUrl put back to
\* its catalog default.
OnlyBaseUrl ==
  [n \in DOMAIN parameters |->
     IF n = "baseUrl" THEN parameters[n] ELSE Defaults(adapter)[n]]

\* C25: a parameter that belongs into the path (address of Ultra balances,
\* tag, category and interval of Token) is a piece of the url after the base
\* URL and is neither a key of the query string nor of the body; the url of
\* every other operation is the base URL and one more piece, the same piece
\* whatever the other parameters are.
PathIsPerOperation ==
  pc = "credentials" =>
    /\ options.url[1] = parameters.baseUrl
    /\ \A n \in InPath(adapter, nodeOperation) :
         /\ \E k \in 2..Len(options.url) : options.url[k] = parameters[n]
         /\ n \notin DOMAIN options.qs
         /\ "body" \in DOMAIN options => n \notin DOMAIN options.body
    /\ InPath(adapter, nodeOperation) = {} =>
         /\ Len(options.url) = 2
         /\ options.url = Request(adapter, nodeOperation, OnlyBaseUrl).url

BalancesWithAddressInPath ==
  /\ pc = "credentials"
  /\ adapter = "Ultra"
  /\ nodeOperation = "balances"
  /\ parameters.address = "x"
  /\ options.url = <<parameters.baseUrl, "/balances/", "x">>
  /\ options.qs = <<>>

\* The number of items before the first one that failed; without a failure,
\* the number of items that have their record.
BeforeFailure ==
  IF DOMAIN failures = {} THEN Len(returnData)
  ELSE CHOOSE i \in DOMAIN failures : \A j \in DOMAIN failures : i <= j

\* C26: what a run does before its first failure is the same with and
\* without continueOnFail, for it is fixed by the items and the responses
\* alone: one credential lookup and one request per item, in input order,
\* and the success record of each response, in input order; a run without a
\* failure throws nothing and returns exactly these records.
ModesAgreeBeforeFailure ==
  /\ Len(returnData) >= BeforeFailure
  /\ Len(lookups) >= BeforeFailure
  /\ Len(requests) >= BeforeFailure
  /\ SubSeq(returnData, 1, BeforeFailure) = SuccessesBefore(BeforeFailure)
  /\ \A k \in 1..BeforeFailure : lookups[k] = k - 1 /\ requests[k] = k - 1
  /\ DOMAIN failures = {} =>
       /\ thrown = <<>>
       /\ pc # "aborted"
       /\ pc = "done" => returned = <<SuccessesBefore(items)>>

AbortModeRunWithoutFailure ==
  /\ ~continueOnFail
  /\ pc = "done"
  /\ items = 2
  /\ DOMAIN failures = {}
  /\ returned = <<SuccessesBefore(2)>>

\* C27: in Swap, Trigger, Ultra and Recurring the body of a POST has a key
\* that is assigned without a guard, whatever the parameters are, so the
\* options of a POST always carry the body the branch built; the options of a
\* GET never carry a body.
PostBodyIsNeverSuppressed ==
  (pc = "credentials" /\ adapter \in {"Swap", "Trigger", "Ultra", "Recurring"}) =>
    LET request == Request(adapter, nodeOperation, parameters)
    IN /\ options.method = request.method
       /\ request.method = "POST" =>
            /\ DOMAIN request.body \ Guarded(adapter, nodeOperation) # {}
            /\ "body" \in DOMAIN options
            /\ options.body = request.body
       /\ request.method = "GET" => "body" \notin DOMAIN options

CancelOrderWithNothingSet ==
  /\ pc = "credentials"
  /\ adapter = "Trigger"
  /\ nodeOperation = "cancelOrder"
  /\ parameters.maker = ""
  /\ parameters.orderId = ""
  /\ options.body = ("maker" :> "")

=========================================================================
